---- MODULE Spec2Model ----
(***************************************************************************)
(* seitai: the adaptive per-user rate limiter (seitai/src/utils.rs), the    *)
(* message handler that turns a chat message into queued audio             *)
(* (seitai/src/event_handler.rs), and the join command with its disconnect *)
(* notifier (seitai/src/commands/join.rs).                                 *)
(*                                                                         *)
(* Instants and durations are whole seconds.  Option<T> is a sequence:     *)
(* <<>> is None and <<x>> is Some(x).                                      *)
(***************************************************************************)
EXTENDS Integers, Sequences, FiniteSets, TLC

\* ------------------------------------------------------------------ bounds
\* limiter calls and clock advances in one behaviour of Spec
MaxCalls == 5
MaxTicks == 2
\* check_rate_limit calls in one behaviour of SpecEscalate
MaxEscalateCalls == 330

UserIds == {"u1", "u2"}
\* the steps the clock advances by: within the window (1), to its edge (3),
\* past it (1 + 3), to the end of the first cooldown (30), to the violation
\* reset time (3600)
Delays == {1, 3, 30, 3600}
\* the time that passes between get_user_state's two reads of the clock
GetSkews == {0, 1}

\* ------------------------------------------------- Option and small helpers
None == <<>>
Some(x) == <<x>>
IsSome(o) == o # <<>>
Unwrap(o) == o[1]

Min(a, b) == IF a <= b THEN a ELSE b
Last(s) == s[Len(s)]

\* ------------------------------------------------------------- f32 values
\* A finite positive f32 is m * 2^e with 2^23 <= m < 2^24; inf is +infinity.
F32(m, e) == [inf |-> FALSE, m |-> m, e |-> e]
F32Inf == [inf |-> TRUE, m |-> 0, e |-> 0]
F32MaxExp == 2^7 - 1

RECURSIVE F32Normalize(_, _)
F32Normalize(m, e) == IF m >= 2^23 THEN F32(m, e) ELSE F32Normalize(2 * m, e - 1)

\* Duration::as_secs_f32 of a whole number of seconds 0 < n < 2^24 (exact)
as_secs_f32(n) == F32Normalize(n, 0)

\* round-to-nearest-even of mantissa m with remainder rem out of 2 * half
F32Round(m, rem, half, e) ==
    LET up == rem > half \/ (rem = half /\ m % 2 = 1)
        m1 == IF up THEN m + 1 ELSE m
        m2 == IF m1 = 2^24 THEN 2^23 ELSE m1
        e2 == IF m1 = 2^24 THEN e + 1 ELSE e
    IN  IF e2 + 23 > F32MaxExp THEN F32Inf ELSE F32(m2, e2)

\* IEEE-754 single multiplication; the 48-bit product is built from 12-bit halves
F32Mul(a, b) ==
    IF a.inf \/ b.inf THEN F32Inf
    ELSE LET a1 == a.m \div 4096
             a0 == a.m % 4096
             b1 == b.m \div 4096
             b0 == b.m % 4096
             mid == a1 * b0 + a0 * b1
             low == (mid % 4096) * 4096 + a0 * b0
             L == low % 2^24
             H == a1 * b1 + (mid \div 4096) + (low \div 2^24)
         IN  IF H >= 2^23
             THEN F32Round(H, L, 2^23, a.e + b.e + 24)
             ELSE F32Round(2 * H + (L \div 2^23), L % 2^23, 2^22, a.e + b.e + 23)

\* f32::powi for n >= 0: the square-and-multiply loop of the powi intrinsic
RECURSIVE PowiLoop(_, _, _)
PowiLoop(a, n, r) ==
    LET r1 == IF n % 2 = 1 THEN F32Mul(r, a) ELSE r
        n1 == n \div 2
    IN  IF n1 = 0 THEN r1 ELSE PowiLoop(F32Mul(a, a), n1, r1)

powi(a, n) == PowiLoop(a, n, as_secs_f32(1))

\* Durations of 2^30 s and more are all represented by 2^30 s: the only use of
\* the converted value is Duration::min with max_cooldown.
DurationCap == 2^30

\* Duration::from_secs_f32: None is the panic ("value is either too big or
\* NaN") for a value that is not finite or is >= 2^64 s; otherwise the whole
\* seconds of the value.
from_secs_f32(x) ==
    IF x.inf \/ x.e + 23 >= 64 THEN None
    ELSE IF x.e >= 7 THEN Some(DurationCap)
    ELSE IF x.e >= 0 THEN Some(x.m * 2^(x.e))
    ELSE IF x.e < -24 THEN Some(0)
    ELSE Some(x.m \div 2^(0 - x.e))

\* ------------------------------------------- RateLimiter::new(2, 3, 20, 60, 1.5, 1)
max_messages == 2
time_window == 3
base_cooldown == 20
max_cooldown == 60
\* 1.5f32 = 12582912 * 2^-23
cooldown_multiplier == F32(3 * 2^22, 0 - 23)
violation_reset_hours == 1
violation_reset_time == violation_reset_hours * 3600

\* ------------------------------------------------------------------ state
VARIABLES
    clock,      \* Instant::now(): the monotonic clock
    users,      \* RateLimiter.users: UserId -> UserState, for the users seen so far
    admitted,   \* per user, the instants of the latest max_messages + 1 admitted calls
    hist,       \* per user, the latest two check_rate_limit calls: outcome, reset, count after
    last,       \* the latest limiter operation: its input, outcome and the map before it
    ncalls,     \* limiter calls made (check_rate_limit and get_user_state)
    nticks,     \* clock advances made
    \* the tasks that call the limiter at the same time
    tpc,        \* per task, where its call is
    tcall,      \* per task, the call: op, user, and the now it sampled
    users_lock, \* the task holding the users mutex (an Option)
    waited_for, \* per task, the user of the call that held the mutex when it had to wait
    \* Handler::message, one task per message
    sound_store, \* the names the sound store holds
    manager,     \* the guilds the songbird manager holds a Call for
    call_lock,   \* per guild, the handler holding the Call's mutex (an Option)
    queue,       \* per guild, the Call's track queue: what was enqueued, in order
    msg,         \* per handler, the message: author_bot, guild_id, content
    pc,          \* per handler, where it is
    lines,       \* per handler, the lines the for loop iterates over
    idx,         \* per handler, how many of them it has taken
    text,        \* per handler, the trimmed line in hand
    input,       \* per handler, get_audio_source's result for it (an Option)
    attempts,    \* per handler, the texts handed to get_audio_source and how each ended
    after_disconnect, \* per handler, whether it started after a notifier run had returned
    \* commands::join::run, one task per run, and DriverDisconnectNotifier
    calls,       \* the Call objects created so far: guild, conn, notifiers
    call_of,     \* per guild, the index in calls of the Call the manager holds (0: none)
    connections, \* the guilds the connections map holds a text channel for
    conn_lock,   \* the join run that has the connections map borrowed (an Option)
    jpc,         \* per join run, where it is
    jcall,       \* per join run, the index of the Call get_or_insert gave it (0: none yet)
    jresult,     \* per join run, how it ended
    responses,   \* the interaction responses sent: run, kind
    transport_joins, \* per guild, the Call::join requests made
    pending_acts,    \* per guild, the notifier runs the driver still owes for its event
    apc,         \* per guild, where the notifier run is
    event_runs,  \* per guild, the notifier runs started for the latest event
    nevents,     \* DriverDisconnect events delivered
    nleaves,     \* leave commands run
    disconnected \* per guild, a notifier run has returned and no join has started since

taskVars == <<tpc, tcall, users_lock, waited_for>>
limiterVars == <<clock, users, admitted, hist, last, ncalls, nticks, taskVars>>
messageVars == <<sound_store, manager, call_lock, queue, msg, pc, lines, idx, text, input,
                 attempts, after_disconnect>>
\* the message handler's own variables
handlerVars == <<sound_store, msg, pc, lines, idx, text, input, attempts, after_disconnect>>
voiceVars == <<calls, call_of, connections, conn_lock, jpc, jcall, jresult, responses,
               transport_joins, pending_acts, apc, event_runs, nevents, nleaves, disconnected>>
vars == <<limiterVars, messageVars, voiceVars>>

\* ---------------------------------------------------------------- UserState
NewUserState == [messages |-> <<>>, violation_count |-> 0, cooldown_until |-> None]

\* Instant::duration_since saturates at zero
duration_since(now, earlier) == IF now >= earlier THEN now - earlier ELSE 0

\* mutant: the cooldown still holds at the instant it ends
CooldownActiveInclusive(state, now) ==
    IsSome(state.cooldown_until) /\ now <= Unwrap(state.cooldown_until)

\* if let Some(cooldown_until) = .. { if now < cooldown_until
CooldownActive(state, now) ==
    IsSome(state.cooldown_until) /\ now < Unwrap(state.cooldown_until)

\* mutant: a call rejected by the cooldown counts as a violation
RejectInCooldownCounted(state, now) == [state EXCEPT !.violation_count = @ + 1]

\* mutant: the history is pruned before the cooldown check
RejectInCooldownPruned(state, now) ==
    [state EXCEPT !.messages =
        SelectSeq(@, LAMBDA time : (IF now >= time THEN now - time ELSE 0) <= time_window)]

\* return false: the state is left as it was
RejectInCooldown(state, now) == state

\* mutant: the reset compares against the rate window
ViolationResetDueWindow(state, now) ==
    /\ IsSome(state.cooldown_until)
    /\ state.messages # <<>>
    /\ duration_since(now, Last(state.messages)) >= time_window

\* the cooldown is over and the last recorded message is old enough
ViolationResetDue(state, now) ==
    /\ IsSome(state.cooldown_until)
    /\ state.messages # <<>>
    /\ duration_since(now, Last(state.messages)) >= violation_reset_time

\* mutant: the reset clears the cooldown along with the count
ResetViolationsAndCooldown(state, now) ==
    IF ViolationResetDue(state, now)
    THEN [state EXCEPT !.violation_count = 0, !.cooldown_until = None]
    ELSE state

ResetViolations(state, now) ==
    IF ViolationResetDue(state, now) THEN [state EXCEPT !.violation_count = 0] ELSE state

\* messages.retain(|time| now.duration_since(*time) <= self.time_window)
retain(messages, now) ==
    SelectSeq(messages, LAMBDA time : duration_since(now, time) <= time_window)

\* mutant: one message too many is let through
OverLimitOffByOne(messages) == Len(messages) > max_messages

\* user_state.messages.len() >= self.max_messages
OverLimit(messages) == Len(messages) >= max_messages

\* mutant: the rejected call is recorded in the history as well
CountViolationRecorded(state) ==
    [state EXCEPT !.violation_count = @ + 1, !.messages = Append(@, Last(@))]

\* user_state.violation_count += 1
CountViolation(state) == [state EXCEPT !.violation_count = @ + 1]

\* mutant: the exponent is the count before the increment
CooldownDurationPreIncrement(violation_count) ==
    LET secs == F32Mul(as_secs_f32(base_cooldown),
                       powi(cooldown_multiplier, violation_count - 1))
        cooldown_duration == from_secs_f32(secs)
    IN  IF IsSome(cooldown_duration)
        THEN Some(Min(Unwrap(cooldown_duration), max_cooldown))
        ELSE None

\* Duration::from_secs_f32(base.as_secs_f32() * multiplier.powi(count)).min(max_cooldown);
\* None when from_secs_f32 panics
CooldownDuration(violation_count) ==
    LET secs == F32Mul(as_secs_f32(base_cooldown), powi(cooldown_multiplier, violation_count))
        cooldown_duration == from_secs_f32(secs)
    IN  IF IsSome(cooldown_duration)
        THEN Some(Min(Unwrap(cooldown_duration), max_cooldown))
        ELSE None

\* the count check and what follows it, on the pruned state
CountAndAdmit(state, now) ==
    IF OverLimit(state.messages)
    THEN LET counted == CountViolation(state)
             cooldown_duration == CooldownDuration(counted.violation_count)
         IN  IF IsSome(cooldown_duration)
             THEN [state |-> [counted EXCEPT !.cooldown_until = Some(now + Unwrap(cooldown_duration))],
                   outcome |-> "limit"]
             ELSE [state |-> counted, outcome |-> "panic"]
    ELSE [state |-> [state EXCEPT !.messages = Append(@, now)], outcome |-> "admit"]

\* the body of check_rate_limit on the user's entry: the new entry and the
\* outcome ("admit" returns true; "cooldown" and "limit" return false; "panic"
\* unwinds, releasing the lock with the entry as mutated so far)
check_rate_limit(state, now) ==
    IF CooldownActive(state, now)
    THEN [state |-> RejectInCooldown(state, now), outcome |-> "cooldown", reset |-> FALSE]
    ELSE LET reset == ResetViolations(state, now)
             pruned == [reset EXCEPT !.messages = retain(@, now)]
             r == CountAndAdmit(pruned, now)
         IN  [state |-> r.state, outcome |-> r.outcome,
              reset |-> ViolationResetDue(state, now)]

\* users.entry(user_id).or_insert_with(..)
Entry(us, user_id) == IF user_id \in DOMAIN us THEN us[user_id] ELSE NewUserState

WithEntry(us, user_id, state) ==
    [u \in DOMAIN us \cup {user_id} |-> IF u = user_id THEN state ELSE us[u]]

\* mutant: the lookup goes through entry().or_insert_with()
UsersAfterGetInsert(us, user_id) == WithEntry(us, user_id, Entry(us, user_id))

\* get_user_state leaves the map alone
UsersAfterGet(us, user_id) == us

\* get_user_state's result; now1 and now2 are its two reads of Instant::now()
UserStateView(us, user_id, now1, now2) ==
    IF user_id \in DOMAIN us
    THEN LET state == us[user_id]
             remaining_cooldown ==
                 IF IsSome(state.cooldown_until)
                 THEN IF now1 < Unwrap(state.cooldown_until)
                      THEN Some(duration_since(Unwrap(state.cooldown_until), now2))
                      ELSE Some(0)
                 ELSE None
         IN  Some(<<state.violation_count, remaining_cooldown>>)
    ELSE None

\* ghost: keep the latest n elements
Latest(s, n) == IF Len(s) <= n THEN s ELSE SubSeq(s, Len(s) - n + 1, Len(s))

\* ------------------------------------------------------- message text
\* A message is a sequence of tokens, each standing for a run of characters of
\* one kind.
MARKER == "{{seitai::replacement::URL}}"
SEP == "://"

\* [[:alpha:]][[:alnum:]+\-.]* : a run that starts with a letter
AlphaTokens == {"a", "check", "http", "now", "a.b"}
\* [[:alnum:]+\-.]+ that starts with a digit
DigitTokens == {"1"}
SchemeTokens == AlphaTokens \cup DigitTokens
\* \s, and what str::trim removes
Whitespace == {" ", "\n"}

Alphabet == {"a", "1", SEP, " ", "\n", MARKER}

Tokens == Alphabet \cup SchemeTokens
\* [^\s]
NonSpaceTokens == Tokens \ Whitespace

\* the end (exclusive) of the longest run of tokens of s from i on that are in S
RECURSIVE RunEnd(_, _, _)
RunEnd(s, i, S) == IF i <= Len(s) /\ s[i] \in S THEN RunEnd(s, i + 1, S) ELSE i

\* [[:alpha:]][[:alnum:]+\-.]*?://[^\s]+ matched at i: 0 when there is no
\* match, else the end (exclusive) of the match
MatchAt(s, i) ==
    IF i > Len(s) \/ s[i] \notin AlphaTokens THEN 0
    ELSE LET j == RunEnd(s, i + 1, SchemeTokens)
         IN  IF j + 1 <= Len(s) /\ s[j] = SEP /\ s[j + 1] \in NonSpaceTokens
             THEN RunEnd(s, j + 1, NonSpaceTokens)
             ELSE 0

\* the start of the leftmost match at or after from; 0 when there is none
RECURSIVE FindMatch(_, _)
FindMatch(s, from) ==
    IF from > Len(s) THEN 0
    ELSE IF MatchAt(s, from) # 0 THEN from
    ELSE FindMatch(s, from + 1)

\* Regex::split: the text between the matches, empty pieces included
RECURSIVE RegexSplit(_, _)
RegexSplit(s, from) ==
    LET i == FindMatch(s, from)
    IN  IF i = 0 THEN <<SubSeq(s, from, Len(s))>>
        ELSE <<SubSeq(s, from, i - 1)>> \o RegexSplit(s, MatchAt(s, i))

\* [&str]::join(sep)
RECURSIVE JoinWith(_, _)
JoinWith(pieces, sep) ==
    IF Len(pieces) = 1 THEN pieces[1]
    ELSE pieces[1] \o sep \o JoinWith(SubSeq(pieces, 2, Len(pieces)), sep)

\* mutant: the marker is put in without the line breaks around it
JoinPiecesInline(pieces) == JoinWith(pieces, <<MARKER>>)

\* .join("\n{{seitai::replacement::URL}}\n")
JoinPieces(pieces) == JoinWith(pieces, <<"\n", MARKER, "\n">>)

\* str::split('\n')
RECURSIVE SplitLines(_, _)
SplitLines(s, from) ==
    LET nl == RunEnd(s, from, Tokens \ {"\n"})
    IN  IF nl > Len(s) THEN <<SubSeq(s, from, Len(s))>>
        ELSE <<SubSeq(s, from, nl - 1)>> \o SplitLines(s, nl + 1)

RECURSIVE trim_start(_)
trim_start(s) == IF s # <<>> /\ s[1] \in Whitespace THEN trim_start(SubSeq(s, 2, Len(s))) ELSE s

RECURSIVE trim_end(_)
trim_end(s) ==
    IF s # <<>> /\ s[Len(s)] \in Whitespace THEN trim_end(SubSeq(s, 1, Len(s) - 1)) ELSE s

\* mutant: only the start of the line is trimmed
TrimStartOnly(s) == trim_start(s)

\* str::trim
trim(s) == trim_end(trim_start(s))

\* the lines the for loop of Handler::message iterates over
MessageLines(content) == SplitLines(JoinPieces(RegexSplit(content, 1)), 1)

\* match text { "{{seitai::replacement::URL}}" => .. }
IsUrlMarker(t) == t = <<MARKER>>

\* ------------------------------------------------------- message handler
MaxLen == 4

Handlers == {"m1", "m2"}
Guilds == {"g1"}
Example == <<"check", " ", "http", SEP, "a.b", " ", "now">>

RECURSIVE SeqsUpTo(_, _)
SeqsUpTo(S, n) ==
    IF n = 0 THEN {<<>>}
    ELSE LET shorter == SeqsUpTo(S, n - 1)
         IN  shorter \cup {Append(q, x) : q \in {r \in shorter : Len(r) = n - 1}, x \in S}

Contents == SeqsUpTo(Alphabet, MaxLen) \cup {Example}

\* what resolving a text segment can come to: both calls succeed, the audio
\* query fails, the audio generation fails
TextOutcomes == {"ok", "query_err", "audio_err"}

NoMessage == [author_bot |-> FALSE, guild_id |-> None, content |-> <<>>]

JoinRuns == {"j1", "j2"}

\* a Call that an earlier join command connected
ConnectedCall(g) == [guild |-> g, conn |-> "connected", notifiers |-> 1]

\* no join command is running; the guilds the manager holds a Call for were
\* connected by one join command each
InitConnections ==
    /\ \E order \in [1..Cardinality(manager) -> manager] :
           /\ \A g \in manager : \E i \in DOMAIN order : order[i] = g
           /\ calls = [i \in 1..Cardinality(manager) |-> ConnectedCall(order[i])]
           /\ call_of = [g \in Guilds |->
                            IF g \in manager THEN CHOOSE i \in DOMAIN order : order[i] = g ELSE 0]
    /\ connections = manager
    /\ conn_lock = None
    /\ jpc = [j \in JoinRuns |-> "idle"]
    /\ jcall = [j \in JoinRuns |-> 0]
    /\ jresult = [j \in JoinRuns |-> "none"]
    /\ responses = <<>>
    /\ transport_joins = [g \in Guilds |-> IF g \in manager THEN 1 ELSE 0]
    /\ pending_acts = [g \in Guilds |-> 0]
    /\ apc = [g \in Guilds |-> "idle"]
    /\ event_runs = [g \in Guilds |-> 0]
    /\ nevents = 0
    /\ nleaves = 0
    /\ disconnected = [g \in Guilds |-> FALSE]

InitHandlers ==
    /\ call_lock = [g \in Guilds |-> None]
    /\ queue = [g \in Guilds |-> <<>>]
    /\ lines = [h \in Handlers |-> <<>>]
    /\ idx = [h \in Handlers |-> 0]
    /\ text = [h \in Handlers |-> <<>>]
    /\ input = [h \in Handlers |-> None]
    /\ attempts = [h \in Handlers |-> <<>>]
    /\ after_disconnect = [h \in Handlers |-> FALSE]
    /\ InitConnections

\* no message is ever dispatched
InitNoMessages ==
    /\ sound_store = {"URL"}
    /\ manager = {}
    /\ msg = [h \in Handlers |-> NoMessage]
    /\ pc = [h \in Handlers |-> "idle"]
    /\ InitHandlers

\* one message is dispatched to handler m1
InitMessage ==
    /\ sound_store \in SUBSET {"URL"}
    /\ manager \in SUBSET Guilds
    /\ \E author_bot \in BOOLEAN, guild_id \in {None} \cup {Some(g) : g \in Guilds},
          content \in Contents :
           msg = [h \in Handlers |->
                     IF h = "m1"
                     THEN [author_bot |-> author_bot, guild_id |-> guild_id, content |-> content]
                     ELSE NoMessage]
    /\ pc = [h \in Handlers |-> IF h = "m1" THEN "start" ELSE "idle"]
    /\ InitHandlers

GuildOf(h) == Unwrap(msg[h].guild_id)

\* from the bot check to manager.get(guild_id)
HandlerStart(h) ==
    /\ pc[h] = "start"
    /\ pc' = [pc EXCEPT ![h] =
                 IF msg[h].author_bot THEN "returned"
                 ELSE IF msg[h].guild_id = None THEN "panic_no_guild"
                 ELSE IF GuildOf(h) \notin manager THEN "returned"
                 ELSE "lock"]
    /\ after_disconnect' = [after_disconnect EXCEPT ![h] =
                               IsSome(msg[h].guild_id) /\ disconnected[GuildOf(h)]]
    /\ UNCHANGED <<limiterVars, voiceVars, sound_store, manager, call_lock, queue, msg, lines, idx, text,
                   input, attempts>>

\* mutant: the Call's mutex is handed out while it is held
CallLockFreeAlways(g) == TRUE

\* call.lock().await goes through when nobody holds the Call's mutex
CallLockFree(g) == call_lock[g] = None

\* call.lock().await, then the regex split, join and split('\n')
HandlerLock(h) ==
    /\ pc[h] = "lock"
    /\ CallLockFree(GuildOf(h))
    /\ call_lock' = [call_lock EXCEPT ![GuildOf(h)] = Some(h)]
    /\ lines' = [lines EXCEPT ![h] = MessageLines(msg[h].content)]
    /\ idx' = [idx EXCEPT ![h] = 0]
    /\ pc' = [pc EXCEPT ![h] = "loop"]
    /\ UNCHANGED <<limiterVars, voiceVars, after_disconnect, sound_store, manager, queue, msg, text, input, attempts>>

\* the for loop takes the next line: trims it, and continues if it is empty
HandlerNextLine(h) ==
    /\ pc[h] = "loop"
    /\ idx[h] < Len(lines[h])
    /\ idx' = [idx EXCEPT ![h] = @ + 1]
    /\ text' = [text EXCEPT ![h] = trim(lines[h][idx[h] + 1])]
    /\ pc' = [pc EXCEPT ![h] = IF text'[h] = <<>> THEN "loop" ELSE "resolve"]
    /\ UNCHANGED <<limiterVars, voiceVars, after_disconnect, sound_store, manager, call_lock, queue, msg, lines, input,
                   attempts>>

\* get_audio_source for the URL marker: sound_store.get("URL").unwrap()
HandlerResolveUrl(h) ==
    /\ pc[h] = "resolve"
    /\ IsUrlMarker(text[h])
    /\ IF "URL" \in sound_store
       THEN /\ input' = [input EXCEPT ![h] = Some([kind |-> "sound", of |-> <<"URL">>])]
            /\ attempts' = [attempts EXCEPT ![h] = Append(@, [kind |-> "UrlMarker", text |-> text[h], result |-> "ok"])]
            /\ pc' = [pc EXCEPT ![h] = "enqueue"]
            /\ UNCHANGED call_lock
       ELSE \* the unwrap panics; unwinding drops the guard of the Call's mutex
            /\ input' = [input EXCEPT ![h] = None]
            /\ attempts' = [attempts EXCEPT ![h] =
                               Append(@, [kind |-> "UrlMarker", text |-> text[h],
                                          result |-> "panic"])]
            /\ pc' = [pc EXCEPT ![h] = "panic_no_sound"]
            /\ call_lock' = [call_lock EXCEPT ![GuildOf(h)] = None]
    /\ UNCHANGED <<limiterVars, voiceVars, after_disconnect, sound_store, manager, queue, msg, lines, idx, text>>

\* get_audio_source for any other text: generate_audio_query, then generate_audio
HandlerResolveText(h, outcome) ==
    /\ pc[h] = "resolve"
    /\ ~IsUrlMarker(text[h])
    /\ input' = [input EXCEPT ![h] =
                    IF outcome = "ok" THEN Some([kind |-> "speech", of |-> text[h]]) ELSE None]
    /\ attempts' = [attempts EXCEPT ![h] =
                       Append(@, [kind |-> "Text", text |-> text[h], result |-> outcome])]
    /\ pc' = [pc EXCEPT ![h] = IF outcome = "ok" THEN "enqueue" ELSE "loop"]
    /\ UNCHANGED <<limiterVars, voiceVars, after_disconnect, sound_store, manager, call_lock, queue, msg, lines, idx, text>>

\* mutant: the new track goes to the head of the queue
EnqueueInputFirst(q, track) == <<track>> \o q

\* Call::enqueue_input: the track goes to the back of the Call's queue
enqueue_input(q, track) == Append(q, track)

\* call.enqueue_input(input).await
HandlerEnqueue(h) ==
    /\ pc[h] = "enqueue"
    /\ queue' = [queue EXCEPT ![GuildOf(h)] =
                    enqueue_input(@, [handler |-> h, line |-> idx[h],
                                      input |-> Unwrap(input[h])])]
    /\ input' = [input EXCEPT ![h] = None]
    /\ pc' = [pc EXCEPT ![h] = "loop"]
    /\ UNCHANGED <<limiterVars, voiceVars, after_disconnect, sound_store, manager, call_lock, msg, lines, idx, text,
                   attempts>>

\* the loop is over: the handler returns and the guard of the Call's mutex drops
HandlerFinish(h) ==
    /\ pc[h] = "loop"
    /\ idx[h] = Len(lines[h])
    /\ call_lock' = [call_lock EXCEPT ![GuildOf(h)] = None]
    /\ pc' = [pc EXCEPT ![h] = "done"]
    /\ UNCHANGED <<limiterVars, voiceVars, after_disconnect, sound_store, manager, queue, msg, lines, idx, text, input,
                   attempts>>

NextMessage ==
    \E h \in Handlers :
        \/ HandlerStart(h)
        \/ HandlerLock(h)
        \/ HandlerNextLine(h)
        \/ HandlerResolveUrl(h)
        \/ \E outcome \in TextOutcomes : HandlerResolveText(h, outcome)
        \/ HandlerEnqueue(h)
        \/ HandlerFinish(h)


\* ---------------------------------------------------------------- actions
Tasks == {"t1", "t2"}
NoCall == [op |-> "none", user |-> "u1", now |-> 0]

InitLimiter ==
    /\ clock = 0
    /\ users = [u \in {} |-> NewUserState]
    /\ admitted = [u \in UserIds |-> <<>>]
    /\ hist = [u \in UserIds |-> <<>>]
    /\ last = [op |-> "none", user |-> "u1", now |-> 0, outcome |-> "none",
               before |-> [u \in {} |-> NewUserState], ret |-> None]
    /\ ncalls = 0
    /\ nticks = 0
    /\ tpc = [t \in Tasks |-> "idle"]
    /\ tcall = [t \in Tasks |-> NoCall]
    /\ users_lock = None
    /\ waited_for = [t \in Tasks |-> None]

\* check_rate_limit's body run on the map with the given now
CheckAt(user_id, now) ==
    LET before == Entry(users, user_id)
        r == check_rate_limit(before, now)
    IN  /\ users' = WithEntry(users, user_id, r.state)
        /\ admitted' = IF r.outcome = "admit"
                       THEN [admitted EXCEPT ![user_id] = Latest(Append(@, now), max_messages + 1)]
                       ELSE admitted
        /\ hist' = [hist EXCEPT ![user_id] =
                       Latest(Append(@, [outcome |-> r.outcome, reset |-> r.reset,
                                         count |-> r.state.violation_count]), 2)]
        /\ last' = [op |-> "check", user |-> user_id, now |-> now, outcome |-> r.outcome,
                    before |-> users,
                    ret |-> IF r.outcome = "panic" THEN None ELSE Some(r.outcome = "admit")]

\* one whole check_rate_limit call, made at the current instant
Check(user_id) ==
    /\ CheckAt(user_id, clock)
    /\ ncalls' = ncalls + 1
    /\ UNCHANGED <<clock, nticks, taskVars, messageVars, voiceVars>>

CheckRateLimit(user_id) ==
    /\ ncalls < MaxCalls
    /\ Check(user_id)

GetUserState(user_id, skew) ==
    /\ ncalls < MaxCalls
    /\ users' = UsersAfterGet(users, user_id)
    /\ clock' = clock + skew
    /\ last' = [op |-> "get", user |-> user_id, now |-> clock, outcome |-> "none",
                before |-> users, ret |-> UserStateView(users, user_id, clock, clock + skew)]
    /\ ncalls' = ncalls + 1
    /\ UNCHANGED <<admitted, hist, nticks, taskVars, messageVars, voiceVars>>

Tick(d) ==
    /\ nticks < MaxTicks
    /\ clock' = clock + d
    /\ nticks' = nticks + 1
    /\ UNCHANGED <<users, admitted, hist, last, ncalls, taskVars, messageVars, voiceVars>>

Init == InitLimiter /\ InitNoMessages

Next ==
    \/ \E user_id \in UserIds : CheckRateLimit(user_id)
    \/ \E user_id \in UserIds, skew \in GetSkews : GetUserState(user_id, skew)
    \/ \E d \in Delays : Tick(d)

Spec == Init /\ [][Next]_vars

\* One user who sends as fast as allowed and retries the moment each cooldown
\* ends; the behaviour is followed until a call panics.
EscalateUser == "u1"

EscalateCall ==
    /\ ncalls < MaxEscalateCalls
    /\ last.outcome # "panic"
    /\ Check(EscalateUser)

EscalateWait ==
    /\ EscalateUser \in DOMAIN users
    /\ CooldownActive(users[EscalateUser], clock)
    /\ clock' = Unwrap(users[EscalateUser].cooldown_until)
    /\ nticks' = nticks + 1
    /\ UNCHANGED <<users, admitted, hist, last, ncalls, taskVars, messageVars, voiceVars>>

NextEscalate == EscalateCall \/ EscalateWait

SpecEscalate == Init /\ [][NextEscalate]_vars

\* One user whose calls come at any of the delays, up to the violation reset
\* time: cooldowns are set, run out, and the count is reset between them.
MaxResetCalls == 9

ResetCall ==
    /\ ncalls < MaxResetCalls
    /\ Check(EscalateUser)

NextReset ==
    \/ ResetCall
    \/ \E d \in Delays : Tick(d)

SpecReset == Init /\ [][NextReset]_vars

\* Two tasks call the limiter at the same time, each call a step at a time.
MaxTaskCalls == 3
TaskOps == {"check", "get"}
\* the step the clock advances by between the steps of the calls
TaskDelays == {1}

\* the call starts; check_rate_limit samples Instant::now() first of all
TaskCall(t, op, user_id) ==
    /\ ncalls < MaxTaskCalls
    /\ tpc[t] = "idle"
    /\ tcall' = [tcall EXCEPT ![t] = [op |-> op, user |-> user_id, now |-> clock]]
    /\ tpc' = [tpc EXCEPT ![t] = "lock"]
    /\ waited_for' = [waited_for EXCEPT ![t] = None]
    /\ ncalls' = ncalls + 1
    /\ UNCHANGED <<clock, users, admitted, hist, last, nticks, users_lock, messageVars,
                   voiceVars>>

\* self.users.lock().await: the mutex is taken, or the task is parked behind
\* the task that holds it
TaskLock(t) ==
    /\ tpc[t] = "lock"
    /\ IF users_lock = None
       THEN /\ users_lock' = Some(t)
            /\ tpc' = [tpc EXCEPT ![t] = "held"]
            /\ UNCHANGED waited_for
       ELSE /\ tpc' = [tpc EXCEPT ![t] = "waiting"]
            /\ waited_for' = [waited_for EXCEPT ![t] = Some(tcall[Unwrap(users_lock)].user)]
            /\ UNCHANGED users_lock
    /\ UNCHANGED <<clock, users, admitted, hist, last, ncalls, nticks, tcall, messageVars,
                   voiceVars>>

\* the mutex is free again and the parked task takes it
TaskWake(t) ==
    /\ tpc[t] = "waiting"
    /\ users_lock = None
    /\ users_lock' = Some(t)
    /\ tpc' = [tpc EXCEPT ![t] = "held"]
    /\ UNCHANGED <<clock, users, admitted, hist, last, ncalls, nticks, tcall, waited_for,
                   messageVars, voiceVars>>

\* check_rate_limit from users.entry(..) to its return, with the now sampled
\* before the lock; the guard is dropped
TaskCheck(t) ==
    /\ tpc[t] = "held"
    /\ tcall[t].op = "check"
    /\ CheckAt(tcall[t].user, tcall[t].now)
    /\ users_lock' = None
    /\ tpc' = [tpc EXCEPT ![t] = "idle"]
    /\ UNCHANGED <<clock, ncalls, nticks, tcall, waited_for, messageVars, voiceVars>>

\* get_user_state from users.get(..) to its return; the guard is dropped
TaskGet(t, skew) ==
    /\ tpc[t] = "held"
    /\ tcall[t].op = "get"
    /\ users' = UsersAfterGet(users, tcall[t].user)
    /\ clock' = clock + skew
    /\ last' = [op |-> "get", user |-> tcall[t].user, now |-> clock, outcome |-> "none",
                before |-> users,
                ret |-> UserStateView(users, tcall[t].user, clock, clock + skew)]
    /\ users_lock' = None
    /\ tpc' = [tpc EXCEPT ![t] = "idle"]
    /\ UNCHANGED <<admitted, hist, ncalls, nticks, tcall, waited_for, messageVars, voiceVars>>

NextTasks ==
    \/ \E t \in Tasks, op \in TaskOps, user_id \in UserIds : TaskCall(t, op, user_id)
    \/ \E t \in Tasks : TaskLock(t)
    \/ \E t \in Tasks : TaskWake(t)
    \/ \E t \in Tasks : TaskCheck(t)
    \/ \E t \in Tasks, skew \in GetSkews : TaskGet(t, skew)
    \/ \E d \in TaskDelays : Tick(d)

SpecTasks == Init /\ [][NextTasks]_vars

\* One message is handled; the limiter is left alone.
InitWithMessage == InitLimiter /\ InitMessage

SpecMessage == InitWithMessage /\ [][NextMessage]_vars

\* Two messages of one guild are handled at the same time: "a", newline,
\* "1", and "a://a 1".
ConcurrentContents == {<<"a", "\n", "1">>, <<"a", SEP, "a", " ", "1">>}

InitConcurrent ==
    /\ InitLimiter
    /\ sound_store \in SUBSET {"URL"}
    /\ manager = Guilds
    /\ \E content \in [Handlers -> ConcurrentContents], g \in Guilds :
           msg = [h \in Handlers |->
                     [author_bot |-> FALSE, guild_id |-> Some(g), content |-> content[h]]]
    /\ pc = [h \in Handlers |-> "start"]
    /\ InitHandlers

SpecConcurrent == InitConcurrent /\ [][NextMessage]_vars

\* ------------------------------------------------------------ join command
\* DriverDisconnect events and leave commands in one behaviour
MaxEvents == 2
MaxLeaves == 1

\* how the checks before get_manager end: a guild and a voice channel are
\* found, the guild is not in the cache, the user is in no voice channel
Prechecks == {"ok", "no_guild", "no_channel"}
\* how the block that deafens and asks for the join ends
CallOutcomes == {"ok", "deafen_err", "join_err"}

\* a Call as the manager makes it: not connected, no event handlers
NewCall(g) == [guild |-> g, conn |-> "idle", notifiers |-> 0]

\* mutant: a new Call is made whether the manager holds one for the guild or not
GetOrInsertAlwaysNew(cs, cf, g) ==
    [calls |-> Append(cs, NewCall(g)), call_of |-> [cf EXCEPT ![g] = Len(cs) + 1]]

\* Songbird::get_or_insert: the guild's Call, made first when the manager holds none
get_or_insert(cs, cf, g) ==
    IF cf[g] # 0
    THEN [calls |-> cs, call_of |-> cf]
    ELSE [calls |-> Append(cs, NewCall(g)), call_of |-> [cf EXCEPT ![g] = Len(cs) + 1]]

\* the guild of the Call a join run works on
JoinGuild(j) == calls[jcall[j]].guild

\* the run returns: the borrow of the connections map ends
JoinReturn(j, result) ==
    /\ jpc' = [jpc EXCEPT ![j] = "done"]
    /\ jresult' = [jresult EXCEPT ![j] = result]
    /\ conn_lock' = None

\* run is called with the connections map borrowed mutably; get_guild, the
\* voice channel lookup, get_manager and manager.get_or_insert(guild.id)
JoinStart(j, g, pre, sent) ==
    /\ jpc[j] = "idle"
    /\ conn_lock = None
    /\ IF pre # "ok"
       THEN \* respond(..).await?; return Ok(())
            /\ responses' = IF sent THEN Append(responses, [run |-> j, kind |-> "unavailable"])
                            ELSE responses
            /\ JoinReturn(j, IF sent THEN "ok" ELSE "respond_err")
            /\ UNCHANGED <<manager, calls, call_of, jcall, disconnected>>
       ELSE LET r == get_or_insert(calls, call_of, g)
            IN  /\ sent
                /\ calls' = r.calls
                /\ call_of' = r.call_of
                /\ manager' = manager \cup {g}
                /\ jcall' = [jcall EXCEPT ![j] = r.call_of[g]]
                /\ conn_lock' = Some(j)
                /\ jpc' = [jpc EXCEPT ![j] = "call"]
                /\ disconnected' = [disconnected EXCEPT ![g] = FALSE]
                /\ UNCHANGED <<responses, jresult>>
    /\ UNCHANGED <<limiterVars, handlerVars, call_lock, queue, connections, transport_joins,
                   pending_acts, apc, event_runs, nevents, nleaves>>

\* call.lock().await; call.deafen(true).await?; call.join(connect_to).await?
JoinCall(j, outcome) ==
    /\ jpc[j] = "call"
    /\ CallLockFree(JoinGuild(j))
    /\ transport_joins' = IF outcome = "deafen_err" THEN transport_joins
                          ELSE [transport_joins EXCEPT ![JoinGuild(j)] = @ + 1]
    /\ IF outcome = "ok"
       THEN /\ calls' = [calls EXCEPT ![jcall[j]].conn = "connecting"]
            /\ jpc' = [jpc EXCEPT ![j] = "await"]
            /\ UNCHANGED <<jresult, conn_lock>>
       ELSE /\ JoinReturn(j, outcome)
            /\ UNCHANGED calls
    /\ UNCHANGED <<limiterVars, messageVars, call_of, connections, jcall, responses,
                   pending_acts, apc, event_runs, nevents, nleaves, disconnected>>

\* join.await?: the connection is made, or the attempt ends with the error
\* and the Call is left not connected
JoinAwait(j, joined) ==
    /\ jpc[j] = "await"
    /\ IF joined
       THEN /\ calls' = [calls EXCEPT ![jcall[j]].conn = "connected"]
            /\ jpc' = [jpc EXCEPT ![j] = "register"]
            /\ UNCHANGED <<jresult, conn_lock>>
       ELSE /\ calls' = [calls EXCEPT ![jcall[j]].conn = "idle"]
            /\ JoinReturn(j, "join_err")
    /\ UNCHANGED <<limiterVars, messageVars, call_of, connections, jcall, responses,
                   transport_joins, pending_acts, apc, event_runs, nevents, nleaves,
                   disconnected>>

\* call.lock().await.add_global_event(DriverDisconnect, notifier), then
\* connections.insert(guild.id, interaction.channel_id)
JoinRegister(j) ==
    /\ jpc[j] = "register"
    /\ CallLockFree(JoinGuild(j))
    /\ calls' = [calls EXCEPT ![jcall[j]].notifiers = @ + 1]
    /\ connections' = connections \cup {JoinGuild(j)}
    /\ jpc' = [jpc EXCEPT ![j] = "respond"]
    /\ UNCHANGED <<limiterVars, messageVars, call_of, conn_lock, jcall, jresult, responses,
                   transport_joins, pending_acts, apc, event_runs, nevents, nleaves,
                   disconnected>>

\* respond(.. "connected to the voice channel" ..).await?; Ok(())
JoinRespond(j, sent) ==
    /\ jpc[j] = "respond"
    /\ responses' = IF sent THEN Append(responses, [run |-> j, kind |-> "success"])
                    ELSE responses
    /\ JoinReturn(j, IF sent THEN "ok" ELSE "respond_err")
    /\ UNCHANGED <<limiterVars, messageVars, calls, call_of, connections, jcall,
                   transport_joins, pending_acts, apc, event_runs, nevents, nleaves,
                   disconnected>>

\* the driver of a connected Call of the guild reports DriverDisconnect: every
\* handler registered on the Call for the event is to run, one after the other
DriverDisconnect(g) ==
    /\ nevents < MaxEvents
    /\ pending_acts[g] = 0
    /\ apc[g] \notin {"stop", "remove"}
    /\ \E c \in DOMAIN calls :
           /\ calls[c].guild = g
           /\ calls[c].conn = "connected"
           /\ calls' = [calls EXCEPT ![c].conn = "idle"]
           /\ pending_acts' = [pending_acts EXCEPT ![g] = calls[c].notifiers]
    /\ event_runs' = [event_runs EXCEPT ![g] = 0]
    /\ apc' = [apc EXCEPT ![g] = "idle"]
    /\ nevents' = nevents + 1
    /\ UNCHANGED <<limiterVars, messageVars, call_of, connections, conn_lock, jpc, jcall,
                   jresult, responses, transport_joins, nleaves, disconnected>>

\* act: self.songbird_manager.get(ctx.guild_id)
ActStart(g) ==
    /\ pending_acts[g] > 0
    /\ apc[g] \in {"idle", "stopped", "removed"}
    /\ pending_acts' = [pending_acts EXCEPT ![g] = @ - 1]
    /\ event_runs' = [event_runs EXCEPT ![g] = @ + 1]
    /\ apc' = [apc EXCEPT ![g] = IF g \in manager THEN "stop" ELSE "remove"]
    /\ UNCHANGED <<limiterVars, messageVars, calls, call_of, connections, conn_lock, jpc,
                   jcall, jresult, responses, transport_joins, nevents, nleaves, disconnected>>

\* act, the Call was found: call.lock().await; call.stop(); return None.
\* stop ends the playback and empties the Call's queue.
ActStop(g) ==
    /\ apc[g] = "stop"
    /\ CallLockFree(g)
    /\ queue' = [queue EXCEPT ![g] = <<>>]
    /\ apc' = [apc EXCEPT ![g] = "stopped"]
    /\ disconnected' = [disconnected EXCEPT ![g] = TRUE]
    /\ UNCHANGED <<limiterVars, handlerVars, manager, call_lock, calls, call_of, connections,
                   conn_lock, jpc, jcall, jresult, responses, transport_joins, pending_acts,
                   event_runs, nevents, nleaves>>

\* act, no Call was found: self.songbird_manager.remove(ctx.guild_id).await.unwrap().
\* Songbird::remove leaves the guild's Call and drops it from the manager; for
\* a guild the manager holds no Call for it returns Err(JoinError::NoCall).
ActRemove(g) ==
    /\ apc[g] = "remove"
    /\ IF g \in manager
       THEN /\ CallLockFree(g)
            /\ calls' = [calls EXCEPT ![call_of[g]].conn = "idle"]
            /\ call_of' = [call_of EXCEPT ![g] = 0]
            /\ manager' = manager \ {g}
            /\ apc' = [apc EXCEPT ![g] = "removed"]
            /\ disconnected' = [disconnected EXCEPT ![g] = TRUE]
       ELSE /\ apc' = [apc EXCEPT ![g] = "panicked"]
            /\ UNCHANGED <<calls, call_of, manager, disconnected>>
    /\ UNCHANGED <<limiterVars, handlerVars, call_lock, queue, connections, conn_lock, jpc,
                   jcall, jresult, responses, transport_joins, pending_acts, event_runs,
                   nevents, nleaves>>

\* the leave command for a guild the manager holds a Call for: the transport
\* is torn down and the Call is dropped from the manager
Leave(g) ==
    /\ nleaves < MaxLeaves
    /\ g \in manager
    /\ CallLockFree(g)
    /\ calls' = [calls EXCEPT ![call_of[g]].conn = "idle"]
    /\ call_of' = [call_of EXCEPT ![g] = 0]
    /\ manager' = manager \ {g}
    /\ connections' = connections \ {g}
    /\ nleaves' = nleaves + 1
    /\ UNCHANGED <<limiterVars, handlerVars, call_lock, queue, conn_lock, jpc, jcall, jresult,
                   responses, transport_joins, pending_acts, apc, event_runs, nevents,
                   disconnected>>

\* One guild, not connected at the start; two runs of the join command, one
\* message ("a" or "a://a 1"), and the DriverDisconnect events of the guild's
\* Call.
VoiceContents == {<<"a">>, <<"a", SEP, "a", " ", "1">>}

InitVoice ==
    /\ InitLimiter
    /\ sound_store = {"URL"}
    /\ manager = {}
    /\ \E content \in VoiceContents, g \in Guilds :
           msg = [h \in Handlers |->
                     IF h = "m1"
                     THEN [author_bot |-> FALSE, guild_id |-> Some(g), content |-> content]
                     ELSE NoMessage]
    /\ pc = [h \in Handlers |-> IF h = "m1" THEN "start" ELSE "idle"]
    /\ InitHandlers

NextVoice ==
    \/ \E j \in JoinRuns, g \in Guilds, pre \in Prechecks, sent \in BOOLEAN :
           JoinStart(j, g, pre, sent)
    \/ \E j \in JoinRuns, outcome \in CallOutcomes : JoinCall(j, outcome)
    \/ \E j \in JoinRuns, joined \in BOOLEAN : JoinAwait(j, joined)
    \/ \E j \in JoinRuns : JoinRegister(j)
    \/ \E j \in JoinRuns, sent \in BOOLEAN : JoinRespond(j, sent)
    \/ \E g \in Guilds : DriverDisconnect(g)
    \/ \E g \in Guilds : ActStart(g)
    \/ \E g \in Guilds : ActStop(g)
    \/ NextMessage

SpecVoice == InitVoice /\ [][NextVoice]_vars

\* The same with the leave command.
NextLeave ==
    \/ NextVoice
    \/ \E g \in Guilds : Leave(g)
    \/ \E g \in Guilds : ActRemove(g)

SpecLeave == InitVoice /\ [][NextLeave]_vars

\* ------------------------------------------------------------ rate limiter claims
Rejected(outcome) == outcome \in {"cooldown", "limit"}

\* the entry the latest check_rate_limit call started from
LastBefore == Entry(last.before, last.user)

\* C1: for every user, the admitted calls whose instants lie in any interval
\* shorter than time_window number at most max_messages.
C1_WindowBound ==
    \A u \in UserIds :
        \A i, j \in DOMAIN admitted[u] :
            (i <= j /\ admitted[u][j] - admitted[u][i] < time_window)
                => j - i + 1 <= max_messages

\* a user has max_messages + 1 admitted calls, the first max_messages within a window
C1_Witness ==
    \E u \in UserIds :
        /\ Len(admitted[u]) = max_messages + 1
        /\ admitted[u][max_messages] - admitted[u][1] < time_window

\* C2: once a cooldown is set, a call before cooldown_until is rejected by the
\* cooldown; a call at or after cooldown_until passes the cooldown check and is
\* admitted when the pruned history holds fewer than max_messages entries.
C2_CooldownThenFresh ==
    (last.op = "check" /\ IsSome(LastBefore.cooldown_until)) =>
        LET cooldown_until == Unwrap(LastBefore.cooldown_until)
            kept == {i \in DOMAIN LastBefore.messages :
                        last.now - LastBefore.messages[i] <= time_window}
        IN  /\ last.now < cooldown_until => last.outcome = "cooldown" /\ last.ret = Some(FALSE)
            /\ last.now >= cooldown_until =>
                   /\ last.outcome # "cooldown"
                   /\ Cardinality(kept) < max_messages =>
                          last.outcome = "admit" /\ last.ret = Some(TRUE)

\* a call made exactly when the cooldown ends is admitted
C2_Witness ==
    /\ last.op = "check"
    /\ LastBefore.cooldown_until = Some(last.now)
    /\ last.outcome = "admit"

\* C3 as stated: two consecutive rejections with no reset leave the violation
\* count strictly greater after the second than after the first.
C3_StrictIncrease ==
    \A u \in UserIds :
        (/\ Len(hist[u]) = 2
         /\ Rejected(hist[u][1].outcome)
         /\ Rejected(hist[u][2].outcome)
         /\ ~hist[u][2].reset)
            => hist[u][2].count > hist[u][1].count

\* C3 amended: across two consecutive rejections with no reset the violation
\* count does not decrease: a rejection by the active cooldown leaves it as it
\* was, a rejection by the count check raises it by one.
C3_NonDecreasing ==
    \A u \in UserIds :
        (/\ Len(hist[u]) = 2
         /\ Rejected(hist[u][1].outcome)
         /\ Rejected(hist[u][2].outcome)
         /\ ~hist[u][2].reset)
            => /\ hist[u][2].outcome = "cooldown" => hist[u][2].count = hist[u][1].count
               /\ hist[u][2].outcome = "limit" => hist[u][2].count = hist[u][1].count + 1

\* a rejection by the count check followed at once by a rejection by the cooldown
C3_Witness ==
    \E u \in UserIds :
        /\ Len(hist[u]) = 2
        /\ hist[u][1].outcome = "limit"
        /\ hist[u][2].outcome = "cooldown"

\* min(max_cooldown, base_cooldown * 1.5^v) in exact integer arithmetic. The
\* product grows with v and is past max_cooldown long before v = 15, so the
\* exponent is held at 15 to keep 3^v within the integers.
ExactCooldown(v) ==
    LET w == Min(v, 15)
    IN  Min(max_cooldown, (base_cooldown * 3^w) \div 2^w)

\* C4: a rejection by the count check raises the violation count to v and sets
\* cooldown_until = now + min(max_cooldown, base_cooldown * multiplier^v) with
\* the count after the increment; the cooldown is at most max_cooldown and not
\* less than the cooldown of the count before.
C4_CooldownFormula ==
    (last.op = "check" /\ last.outcome = "limit") =>
        LET after == users[last.user]
            v == after.violation_count
            cooldown == Unwrap(after.cooldown_until) - last.now
        IN  /\ v = (IF hist[last.user][Len(hist[last.user])].reset
                    THEN 0 ELSE LastBefore.violation_count) + 1
            /\ cooldown = ExactCooldown(v)
            /\ cooldown <= max_cooldown
            /\ v > 1 => Unwrap(CooldownDuration(v - 1)) <= cooldown

\* the first violation gives base_cooldown * 1.5 = 30 s
C4_WitnessFirst ==
    /\ last.op = "check" /\ last.outcome = "limit"
    /\ users[last.user].violation_count = 1
    /\ users[last.user].cooldown_until = Some(last.now + 30)

\* a later violation whose cooldown is capped at max_cooldown
C4_Witness ==
    /\ last.op = "check" /\ last.outcome = "limit"
    /\ users[last.user].violation_count = 5
    /\ users[last.user].cooldown_until = Some(last.now + max_cooldown)

\* C5: a call for an existing user whose cooldown is active returns false and
\* leaves the user's history, violation count and cooldown_until as they were.
C5_CooldownFrame ==
    (/\ last.op = "check"
     /\ last.user \in DOMAIN last.before
     /\ IsSome(LastBefore.cooldown_until)
     /\ last.now < Unwrap(LastBefore.cooldown_until))
        => /\ last.ret = Some(FALSE)
           /\ users[last.user] = last.before[last.user]
           /\ users = last.before

\* a call in an active cooldown whose history has entries older than the window
C5_Witness ==
    /\ last.op = "check"
    /\ last.user \in DOMAIN last.before
    /\ IsSome(LastBefore.cooldown_until)
    /\ last.now < Unwrap(LastBefore.cooldown_until)
    /\ \E i \in DOMAIN LastBefore.messages : last.now - LastBefore.messages[i] > time_window

\* the violation count after the latest check_rate_limit call is neither the
\* count before it nor one more
CountSetBack ==
    /\ last.op = "check"
    /\ users[last.user].violation_count
           \notin {LastBefore.violation_count, LastBefore.violation_count + 1}

\* C6 as stated: the count is set back only in a call where a cooldown set
\* earlier has passed and the last recorded message is more than
\* violation_reset_time old; every other call keeps it or adds one.
C6_ResetOnlyAfterStrict ==
    CountSetBack =>
        /\ IsSome(LastBefore.cooldown_until)
        /\ last.now >= Unwrap(LastBefore.cooldown_until)
        /\ LastBefore.messages # <<>>
        /\ last.now - Last(LastBefore.messages) > violation_reset_time

\* C6 amended: the same with "at least violation_reset_time old".
C6_ResetOnlyAfter ==
    CountSetBack =>
        /\ IsSome(LastBefore.cooldown_until)
        /\ last.now >= Unwrap(LastBefore.cooldown_until)
        /\ LastBefore.messages # <<>>
        /\ last.now - Last(LastBefore.messages) >= violation_reset_time
        /\ users[last.user].violation_count \in {0, 1}

\* a call that set a positive count back to zero
C6_Witness ==
    /\ CountSetBack
    /\ LastBefore.violation_count > 0
    /\ users[last.user].violation_count = 0

\* C7: the cooldown computation never panics, whatever the violation count.
C7_NeverPanics == last.outcome # "panic"

\* C8: get_user_state leaves the users map as it was, and a call for an
\* unknown user creates no entry.
C8_GetIsPure ==
    last.op = "get" =>
        /\ users = last.before
        /\ last.user \notin DOMAIN last.before => last.user \notin DOMAIN users

\* get_user_state for an unknown user while another user has an entry
C8_Witness ==
    /\ last.op = "get"
    /\ last.user \notin DOMAIN last.before
    /\ last.before # [u \in {} |-> NewUserState]
    /\ last.ret = None

\* ------------------------------------------------------------ message claims
StripWhitespace(s) == SelectSeq(s, LAMBDA t : t \notin Whitespace)

RECURSIVE Concat(_)
Concat(ss) == IF ss = <<>> THEN <<>> ELSE ss[1] \o Concat(SubSeq(ss, 2, Len(ss)))

\* the message text with every URL match replaced by the marker token
UrlsReplaced(content) == JoinWith(RegexSplit(content, 1), <<MARKER>>)

\* the segments handler h handed to get_audio_source, in order
SegmentsOf(h) == [i \in DOMAIN attempts[h] |-> attempts[h][i].text]
KindsOf(h) == [i \in DOMAIN attempts[h] |-> attempts[h][i].kind]

\* C9: the segments of a message are its non-empty trimmed single-line pieces
\* and URL markers in their left-to-right order; "check http://a.b now" gives
\* Text("check"), UrlMarker, Text("now"); whitespace alone gives no segments.
C9_Segmentation ==
    \A h \in Handlers :
        pc[h] = "done" =>
            LET segs == SegmentsOf(h)
                content == msg[h].content
            IN  /\ \A i \in DOMAIN segs :
                       /\ segs[i] # <<>>
                       /\ segs[i][1] \notin Whitespace
                       /\ segs[i][Len(segs[i])] \notin Whitespace
                       /\ \A k \in DOMAIN segs[i] : segs[i][k] # "\n"
                /\ Concat([i \in DOMAIN segs |-> StripWhitespace(segs[i])])
                       = StripWhitespace(UrlsReplaced(content))
                /\ content = Example =>
                       /\ segs = << <<"check">>, <<MARKER>>, <<"now">> >>
                       /\ KindsOf(h) = <<"Text", "UrlMarker", "Text">>
                /\ (\A k \in DOMAIN content : content[k] \in Whitespace) => segs = <<>>

\* the example message has been segmented and handled to the end
C9_Witness ==
    /\ pc["m1"] = "done"
    /\ msg["m1"].content = Example
    /\ Len(attempts["m1"]) = 3

\* a message of whitespace alone has been handled to the end
C9_WitnessBlank ==
    /\ pc["m1"] = "done"
    /\ msg["m1"].content = <<" ", "\n", " ">>

\* the non-empty trimmed lines of a message
NonEmptyLines(content) ==
    SelectSeq([i \in DOMAIN MessageLines(content) |-> trim(MessageLines(content)[i])],
              LAMBDA l : l # <<>>)

\* what handler h put on its guild's queue, and its segments that resolved
EnqueuedBy(h) == SelectSeq(queue[GuildOf(h)], LAMBDA e : e.handler = h)
ResolvedBy(h) == SelectSeq(attempts[h], LAMBDA a : a.result = "ok")

\* C10: a segment that fails to resolve is skipped and never aborts the
\* handler: a handler that took the call's lock ends having tried every
\* segment of its message and having enqueued each one that resolved.
C10_FailedSegmentSkipped ==
    \A h \in Handlers :
        /\ pc[h] # "panic_no_sound"
        /\ pc[h] = "done" =>
               /\ SegmentsOf(h) = NonEmptyLines(msg[h].content)
               /\ Len(EnqueuedBy(h)) = Len(ResolvedBy(h))
               /\ \A i \in DOMAIN EnqueuedBy(h) :
                      EnqueuedBy(h)[i].input.of =
                          IF ResolvedBy(h)[i].kind = "UrlMarker"
                          THEN <<"URL">> ELSE ResolvedBy(h)[i].text

\* C11: what one handler has put on the queue is, in queue order, its resolved
\* segments in segment order: the segment sequence with the failed segments
\* left out, nothing reordered.
C11_EnqueueOrder ==
    \A h \in Handlers :
        IsSome(msg[h].guild_id) =>
            LET enq == EnqueuedBy(h)
                res == ResolvedBy(h)
            IN  /\ Len(enq) = Len(res) - (IF pc[h] = "enqueue" THEN 1 ELSE 0)
                /\ \A i \in DOMAIN enq :
                       enq[i].input.of =
                           IF res[i].kind = "UrlMarker" THEN <<"URL">> ELSE res[i].text
                /\ \A i, j \in DOMAIN enq : i < j => enq[i].line < enq[j].line

\* the example message is handled to the end; its first segment failed and
\* the two after it are on the queue
C11_Witness ==
    /\ pc["m1"] = "done"
    /\ msg["m1"].content = Example
    /\ attempts["m1"][1].result = "audio_err"
    /\ Len(queue[GuildOf("m1")]) = 2

\* the handlers that hold a guild's Call locked: from call.lock() to the return
InLoop(g) == {h \in Handlers : IsSome(msg[h].guild_id) /\ GuildOf(h) = g
                                /\ pc[h] \in {"loop", "resolve", "enqueue"}}

\* C12: two handlers of one guild never both hold the guild's Call for their
\* loops, and on the queue the tracks of one message are contiguous: no track
\* of the other message lies between two of them.
C12_MessagesContiguous ==
    \A g \in Guilds :
        /\ Cardinality(InLoop(g)) <= 1
        /\ \A i, j, k \in DOMAIN queue[g] :
               (i < j /\ j < k /\ queue[g][i].handler = queue[g][k].handler)
                   => queue[g][j].handler = queue[g][i].handler

\* both messages are handled to the end with two tracks each on the queue,
\* the second handler's first
C12_Witness ==
    /\ pc["m1"] = "done"
    /\ pc["m2"] = "done"
    /\ Len(EnqueuedBy("m1")) = 2
    /\ Len(EnqueuedBy("m2")) = 2
    /\ queue[GuildOf("m1")][1].handler = "m2"

\* the calls handler h made to the synthesis backend: one generate_audio_query
\* (and, when that succeeded, one generate_audio) per text segment resolved
SynthesisCalls(h) == SelectSeq(attempts[h], LAMBDA a : a.kind = "Text")

\* C13: once a text has been synthesized successfully, a later request for
\* the same text (same speaker, no speed given) makes no call to the
\* synthesis backend.
C13_NoSecondSynthesis ==
    \A h \in Handlers :
        \A i, j \in DOMAIN SynthesisCalls(h) :
            (i < j /\ SynthesisCalls(h)[i].result = "ok")
                => SynthesisCalls(h)[j].text # SynthesisCalls(h)[i].text

\* ------------------------------------------------------------ connection claims
\* the run went through to the success response
JoinedOk(j) == jpc[j] = "done" /\ jresult[j] = "ok" /\ jcall[j] # 0

\* C14: two runs of the join command for one guild with no leave in between
\* make one Call::join request between them and work on the same Call.
C14_OneTransportJoin ==
    \A j, k \in JoinRuns :
        (j # k /\ JoinedOk(j) /\ JoinedOk(k) /\ JoinGuild(j) = JoinGuild(k)) =>
            /\ jcall[j] = jcall[k]
            /\ transport_joins[JoinGuild(j)] = 1

\* the Calls of a guild that are connecting or connected
LiveCalls(g) ==
    {c \in DOMAIN calls : calls[c].guild = g /\ calls[c].conn \in {"connecting", "connected"}}

\* C15: a guild never has two Calls connecting or connected, and every join
\* run works on the one Call the manager holds for its guild.
C15_OneCallPerGuild ==
    /\ \A g \in Guilds : Cardinality(LiveCalls(g)) <= 1
    /\ \A j \in JoinRuns : jcall[j] # 0 => jcall[j] = call_of[JoinGuild(j)]

\* the second join run has asked for the join on the Call the first run
\* connected, after a notifier run and a message handler
C15_Witness ==
    /\ jcall["j1"] # 0
    /\ jcall["j2"] # 0
    /\ \E j \in JoinRuns : jpc[j] = "await"
    /\ \E g \in Guilds : apc[g] = "stopped" /\ LiveCalls(g) # {}
    /\ pc["m1"] = "done"

\* C16: a join run that ends with the transport's join error leaves no Call
\* for the guild in the manager, no entry in the connections map and no
\* success response.
C16_FailedJoinLeavesNothing ==
    \A j \in JoinRuns :
        (/\ jpc[j] = "done"
         /\ jresult[j] = "join_err"
         /\ \A k \in JoinRuns \ {j} : jpc[k] = "idle")
            => /\ JoinGuild(j) \notin manager
               /\ JoinGuild(j) \notin connections
               /\ \A i \in DOMAIN responses : responses[i].kind # "success"

\* C17: a notifier run never panics, whether the leave command dropped the
\* guild's Call before it or not.
C17_NotifierNeverPanics == \A g \in Guilds : apc[g] # "panicked"

\* C18: when a notifier run that found the guild's Call has returned, the
\* manager holds no Call for the guild.
C18_DisconnectRemoves == \A g \in Guilds : apc[g] = "stopped" => g \notin manager

\* C19: a message handler that started after a notifier run had returned, no
\* join run having started since, puts nothing on the guild's queue.
C19_NoEnqueueAfterDisconnect ==
    \A h \in Handlers :
        (after_disconnect[h] /\ disconnected[GuildOf(h)]) => EnqueuedBy(h) = <<>>

\* C20: one DriverDisconnect event makes the notifier run once, however many
\* join runs went through for the guild.
C20_OneNotifierRun == \A g \in Guilds : event_runs[g] <= 1

\* ------------------------------------------------------------ more limiter claims
\* the entry the latest check_rate_limit call left
LastAfter == users[last.user]

\* s with some of its first elements dropped
Suffixes(s) == {SubSeq(s, k + 1, Len(s)) : k \in 0..Len(s)}

\* C22: no user's history ever holds more than max_messages instants; an
\* admitted call appends its instant to a pruned history of fewer than
\* max_messages entries, and a rejected call appends nothing.
C22_HistoryBound ==
    /\ \A u \in DOMAIN users : Len(users[u].messages) <= max_messages
    /\ last.op = "check" =>
           /\ last.outcome = "admit" =>
                  \E kept \in Suffixes(LastBefore.messages) :
                      /\ Len(kept) < max_messages
                      /\ LastAfter.messages = Append(kept, last.now)
           /\ Rejected(last.outcome) => LastAfter.messages \in Suffixes(LastBefore.messages)

\* a call is rejected at the limit: the history it leaves is full
C22_Witness ==
    /\ last.op = "check"
    /\ last.outcome = "limit"
    /\ Len(LastAfter.messages) = max_messages
    /\ LastAfter.messages = LastBefore.messages

\* C24: a check_rate_limit call that finds a cooldown_until leaves one, and
\* not an earlier one.
C24_CooldownMonotone ==
    (last.op = "check" /\ IsSome(LastBefore.cooldown_until)) =>
        /\ IsSome(LastAfter.cooldown_until)
        /\ Unwrap(LastAfter.cooldown_until) >= Unwrap(LastBefore.cooldown_until)

\* a new cooldown is written over an old one after the count was reset: the
\* count it leaves is 1 again
C24_Witness ==
    /\ last.op = "check"
    /\ last.outcome = "limit"
    /\ IsSome(LastBefore.cooldown_until)
    /\ LastAfter.violation_count = 1
    /\ Unwrap(LastAfter.cooldown_until) > Unwrap(LastBefore.cooldown_until)

\* ------------------------------------------------------------ URL marker claim
\* the URL-pattern matches in a message
UrlMatches(content) == Len(RegexSplit(content, 1)) - 1

\* the lines of the text between the matches that are the marker token once
\* trimmed: the marker as the author of the message typed it
TypedMarkerLines(content) ==
    LET pieces == RegexSplit(content, 1)
    IN  Cardinality({ki \in (DOMAIN pieces) \X (1..(Len(content) + 1)) :
                        /\ ki[2] \in DOMAIN SplitLines(pieces[ki[1]], 1)
                        /\ trim(SplitLines(pieces[ki[1]], 1)[ki[2]]) = <<MARKER>>})

\* the segments handler h resolved as the URL marker
MarkerSegments(h) == Len(SelectSeq(attempts[h], LAMBDA a : a.kind = "UrlMarker"))

\* C25 as stated: a handled message has as many URL-marker segments as it has
\* URL-pattern matches.
C25_MarkerOnlyForUrls ==
    \A h \in Handlers :
        pc[h] = "done" => MarkerSegments(h) = UrlMatches(msg[h].content)

\* C25: a handled message has as many URL-marker segments as it has
\* URL-pattern matches and typed lines equal to the marker token together.
C25_MarkerForUrlsAndTypedMarkers ==
    \A h \in Handlers :
        pc[h] = "done" =>
            MarkerSegments(h) = UrlMatches(msg[h].content) + TypedMarkerLines(msg[h].content)

\* a message with a URL and a typed marker is handled to the end: two
\* segments are resolved as the URL marker
C25_Witness ==
    /\ pc["m1"] = "done"
    /\ UrlMatches(msg["m1"].content) = 1
    /\ TypedMarkerLines(msg["m1"].content) = 1
    /\ MarkerSegments("m1") = 2

\* ------------------------------------------------------------ concurrent limiter claims
\* C21: a limiter call has to wait for the users mutex only behind a call for
\* the same user, never behind a call for another user.
C21_NoWaitBehindOtherUser ==
    \A t \in Tasks : tpc[t] = "waiting" => waited_for[t] = Some(tcall[t].user)

\* C23: every user's history is in non-decreasing order of instants, so its
\* last element is its latest.
C23_HistoryOrdered ==
    \A u \in DOMAIN users :
        \A i, j \in DOMAIN users[u].messages :
            i < j => users[u].messages[i] <= users[u].messages[j]

====
